---- MODULE Spec2Model ----
(***************************************************************************)
(* A model of the recipe API route (src/app/api/recipe/route.ts): the      *)
(* retrying transport fwFetchWithRetry, the extraction of the model's JSON *)
(* object from the completion text, and the validation and normalization   *)
(* of the two payload shapes by the POST handler.                          *)
(*                                                                         *)
(* JavaScript strings are sequences of one-character strings, JSON values  *)
(* are tagged records, and JSON.parse / JSON.stringify / String.prototype  *)
(* methods are operators computed character by character.                  *)
(***************************************************************************)
EXTENDS Integers, Sequences, FiniteSets, TLC

(***************************************************************************)
(* Text                                                                    *)
(***************************************************************************)

LowerLetters ==
    << "a", "b", "c", "d", "e", "f", "g", "h", "i", "j", "k", "l", "m",
       "n", "o", "p", "q", "r", "s", "t", "u", "v", "w", "x", "y", "z" >>

UpperLetters ==
    << "A", "B", "C", "D", "E", "F", "G", "H", "I", "J", "K", "L", "M",
       "N", "O", "P", "Q", "R", "S", "T", "U", "V", "W", "X", "Y", "Z" >>

Digits == << "0", "1", "2", "3", "4", "5", "6", "7", "8", "9" >>

InSeq(c, s) == \E i \in 1..Len(s) : s[i] = c

IndexIn(c, s) == CHOOSE i \in 1..Len(s) : s[i] = c

\* The i-th character of s, or "" past either end.
CharAt(s, i) == IF i >= 1 /\ i <= Len(s) THEN s[i] ELSE ""

\* Concatenation of a sequence of texts (by halves, to keep the nesting of
\* the evaluation logarithmic in the number of texts).
RECURSIVE Concat(_)
Concat(ss) ==
    IF Len(ss) = 0 THEN << >>
    ELSE IF Len(ss) = 1 THEN ss[1]
    ELSE Concat(SubSeq(ss, 1, Len(ss) \div 2))
         \o Concat(SubSeq(ss, (Len(ss) \div 2) + 1, Len(ss)))

\* ss joined with sep between consecutive elements (Array.prototype.join).
Join(ss, sep) ==
    IF Len(ss) = 0 THEN << >>
    ELSE Concat([n \in 1..(2 * Len(ss) - 1) |->
                   IF n % 2 = 1 THEN ss[(n + 1) \div 2] ELSE sep])

\* ECMAScript WhiteSpace and LineTerminator, as far as the model's alphabet
\* goes: what String.prototype.trim strips and what the regex class \s matches.
IsSpace(c) == c \in {" ", "\n", "\t", "\r"}

\* The index of the first character of s that is no whitespace, Len(s) + 1
\* when there is none.
FirstNonSpace(s) ==
    CHOOSE j \in 1..(Len(s) + 1) :
        ~IsSpace(CharAt(s, j)) /\ \A k \in 1..(j - 1) : IsSpace(s[k])

\* The index of the last character of s that is no whitespace, 0 when there
\* is none.
LastNonSpace(s) ==
    CHOOSE j \in 0..Len(s) :
        ~IsSpace(CharAt(s, j)) /\ \A k \in (j + 1)..Len(s) : IsSpace(s[k])

TrimStart(s) == SubSeq(s, FirstNonSpace(s), Len(s))

TrimEnd(s) == SubSeq(s, 1, LastNonSpace(s))

\* String.prototype.trim
trim(s) == TrimEnd(TrimStart(s))

UpperOf(c) == IF InSeq(c, LowerLetters) THEN UpperLetters[IndexIn(c, LowerLetters)] ELSE c

LowerOf(c) == IF InSeq(c, UpperLetters) THEN LowerLetters[IndexIn(c, UpperLetters)] ELSE c

\* The character U+00DF (sharp s), one of those whose upper-case form is
\* longer than itself; it has no lower-case form other than itself.
SharpS == "U+00DF"

\* The upper-case form of one character, as a text.
UpperExpansion(c) == IF c = SharpS THEN << "S", "S" >> ELSE << UpperOf(c) >>

\* String.prototype.toUpperCase / toLowerCase
toUpperCase(s) == Concat([i \in 1..Len(s) |-> UpperExpansion(s[i])])

toLowerCase(s) == [i \in 1..Len(s) |-> LowerOf(s[i])]

\* String.prototype.startsWith
startsWith(s, p) == Len(s) >= Len(p) /\ SubSeq(s, 1, Len(p)) = p

\* A character the class [^a-z0-9\s-] does not match, i.e. one slugify keeps.
SlugKeeps(c) == InSeq(c, LowerLetters) \/ InSeq(c, Digits) \/ IsSpace(c) \/ c = "-"

\* .replace(/[^a-z0-9\s-]/g, "")
StripNonSlug(s) == SelectSeq(s, SlugKeeps)

\* .replace(/\s+/g, "-"): every maximal run of whitespace becomes one "-".
ReplaceSpaceRuns(s) ==
    LET marked == [n \in 1..Len(s) |->
                     IF ~IsSpace(s[n]) THEN s[n]
                     ELSE IF n > 1 /\ IsSpace(s[n - 1]) THEN ""
                     ELSE "-"]
    IN  SelectSeq(marked, LAMBDA c : c # "")

slugify(input) == ReplaceSpaceRuns(trim(StripNonSlug(toLowerCase(input))))

(***************************************************************************)
(* JSON values                                                             *)
(***************************************************************************)

Undefined == [t |-> "undefined"]

Null == [t |-> "null"]

Bool(b) == [t |-> "boolean", b |-> b]

Num(n) == [t |-> "number", n |-> n]

Str(s) == [t |-> "string", s |-> s]

Arr(a) == [t |-> "array", a |-> a]

\* An object is its members in insertion order, each [k |-> key, v |-> value].
Obj(m) == [t |-> "object", m |-> m]

Member(k, v) == [k |-> k, v |-> v]

HasKey(o, k) == o.t = "object" /\ \E i \in 1..Len(o.m) : o.m[i].k = k

\* Property read o.k on a value that is neither null nor undefined: the
\* member's value, or undefined (also for the keys the model reads on a
\* string, number, boolean or array, none of which those have).
Get(o, k) ==
    IF HasKey(o, k)
    THEN o.m[CHOOSE i \in 1..Len(o.m) : o.m[i].k = k].v
    ELSE Undefined

\* Property write o.k = v: in place for an existing key, appended otherwise.
Put(o, k, v) ==
    IF HasKey(o, k)
    THEN Obj([i \in 1..Len(o.m) |-> IF o.m[i].k = k THEN Member(k, v) ELSE o.m[i]])
    ELSE Obj(Append(o.m, Member(k, v)))

\* A property access on null or undefined throws a TypeError.
Nullish(v) == v.t \in {"null", "undefined"}

\* ToBoolean
Truthy(v) ==
    CASE v.t = "undefined" -> FALSE
      [] v.t = "null" -> FALSE
      [] v.t = "boolean" -> v.b
      [] v.t = "number" -> v.n # 0
      [] v.t = "string" -> Len(v.s) > 0
      [] OTHER -> TRUE

RECURSIVE NatToText(_)
NatToText(n) ==
    IF n < 10 THEN << Digits[n + 1] >>
    ELSE NatToText(n \div 10) \o << Digits[(n % 10) + 1] >>

IntToText(n) == IF n < 0 THEN << "-" >> \o NatToText(0 - n) ELSE NatToText(n)

Text_null == << "n", "u", "l", "l" >>

Text_true == << "t", "r", "u", "e" >>

Text_false == << "f", "a", "l", "s", "e" >>

Text_undefined == << "u", "n", "d", "e", "f", "i", "n", "e", "d" >>

Text_objectObject ==
    << "[", "o", "b", "j", "e", "c", "t", " ", "O", "b", "j", "e", "c", "t", "]" >>

\* String(v): ToString of a JSON value.
RECURSIVE String(_)
String(v) ==
    CASE v.t = "string" -> v.s
      [] v.t = "number" -> IntToText(v.n)
      [] v.t = "boolean" -> IF v.b THEN Text_true ELSE Text_false
      [] v.t = "null" -> Text_null
      [] v.t = "undefined" -> Text_undefined
      [] v.t = "array" ->
            Join([i \in 1..Len(v.a) |->
                    IF Nullish(v.a[i]) THEN << >> ELSE String(v.a[i])], << "," >>)
      [] OTHER -> Text_objectObject

(***************************************************************************)
(* JSON.stringify and JSON.parse                                           *)
(*                                                                         *)
(* The grammar is JSON's, without \u escapes and without fractions and     *)
(* exponents in numbers; the texts of the model use neither.               *)
(***************************************************************************)

EscapeChar(c) ==
    CASE c = "\"" -> << "\\", "\"" >>
      [] c = "\\" -> << "\\", "\\" >>
      [] c = "\n" -> << "\\", "n" >>
      [] c = "\t" -> << "\\", "t" >>
      [] c = "\r" -> << "\\", "r" >>
      [] OTHER -> << c >>

Quote(s) == << "\"" >> \o Concat([i \in 1..Len(s) |-> EscapeChar(s[i])]) \o << "\"" >>

\* JSON.stringify(v): no whitespace; a member whose value is undefined is
\* left out, an undefined array element is written null.
RECURSIVE JSON_stringify(_)
JSON_stringify(v) ==
    CASE v.t = "string" -> Quote(v.s)
      [] v.t = "number" -> IntToText(v.n)
      [] v.t = "boolean" -> IF v.b THEN Text_true ELSE Text_false
      [] v.t = "null" -> Text_null
      [] v.t = "array" ->
            << "[" >>
            \o Join([i \in 1..Len(v.a) |->
                       IF v.a[i].t = "undefined" THEN Text_null
                       ELSE JSON_stringify(v.a[i])], << "," >>)
            \o << "]" >>
      [] v.t = "object" ->
            LET kept == SelectSeq(v.m, LAMBDA e : e.v.t # "undefined")
            IN  << "{" >>
                \o Join([i \in 1..Len(kept) |->
                           Quote(kept[i].k) \o << ":" >> \o JSON_stringify(kept[i].v)],
                        << "," >>)
                \o << "}" >>
      [] OTHER -> << >>

JsonSpace(c) == c \in {" ", "\n", "\t", "\r"}

\* The first index from i on that holds no JSON whitespace.
SkipWs(s, i) ==
    CHOOSE j \in i..(Len(s) + 1) :
        ~JsonSpace(CharAt(s, j)) /\ \A k \in i..(j - 1) : JsonSpace(s[k])

\* A parse step's result: the value read and the index after it.
Parsed(v, next) == [ok |-> TRUE, v |-> v, next |-> next]

ParseFail == [ok |-> FALSE, v |-> Undefined, next |-> 0]

HasPrefixAt(s, i, w) ==
    i + Len(w) - 1 <= Len(s) /\ SubSeq(s, i, i + Len(w) - 1) = w

Unescape(c) ==
    CASE c = "n" -> "\n"
      [] c = "t" -> "\t"
      [] c = "r" -> "\r"
      [] OTHER -> c

\* The number of consecutive backslashes right before index j, from index lo on.
BackslashesBefore(s, lo, j) ==
    CHOOSE r \in 0..(j - lo) :
        /\ r = j - lo \/ s[j - 1 - r] # "\\"
        /\ \A q \in 0..(r - 1) : s[j - 1 - q] = "\\"

\* Index j holds a quote that no backslash escapes.
ClosesString(s, lo, j) == s[j] = "\"" /\ BackslashesBefore(s, lo, j) % 2 = 0

\* The characters of a string literal from index i (after the opening quote)
\* up to its closing quote: a backslash that is not itself escaped introduces
\* an escape, a raw control character is a syntax error.
ParseStringBody(s, i) ==
    IF ~\E j \in i..Len(s) : ClosesString(s, i, j) THEN ParseFail
    ELSE LET close  == CHOOSE j \in i..Len(s) :
                           ClosesString(s, i, j)
                           /\ \A k \in i..(j - 1) : ~ClosesString(s, i, k)
             body   == SubSeq(s, i, close - 1)
             Intro(n) == body[n] = "\\" /\ BackslashesBefore(body, 1, n) % 2 = 0
             marked == [n \in 1..Len(body) |->
                          IF Intro(n) THEN ""
                          ELSE IF n > 1 /\ Intro(n - 1) THEN Unescape(body[n])
                          ELSE body[n]]
         IN  IF \/ \E n \in 1..Len(body) : body[n] \in {"\n", "\t", "\r"}
                \/ \E n \in 1..Len(body) :
                       Intro(n) /\ CharAt(body, n + 1) \notin {"\"", "\\", "/", "n", "t", "r"}
             THEN ParseFail
             ELSE Parsed(SelectSeq(marked, LAMBDA c : c # ""), close + 1)

RECURSIVE ParseDigits(_, _, _)
ParseDigits(s, i, acc) ==
    IF InSeq(CharAt(s, i), Digits)
    THEN ParseDigits(s, i + 1, 10 * acc + (IndexIn(CharAt(s, i), Digits) - 1))
    ELSE Parsed(acc, i)

\* -?(0|[1-9][0-9]*)
ParseNumber(s, i) ==
    LET neg == CharAt(s, i) = "-"
        j   == IF neg THEN i + 1 ELSE i
        d   == ParseDigits(s, j, 0)
    IN  IF ~InSeq(CharAt(s, j), Digits) THEN ParseFail
        ELSE IF CharAt(s, j) = "0"
             THEN Parsed(Num(0), j + 1)
        ELSE Parsed(Num(IF neg THEN 0 - d.v ELSE d.v), d.next)

RECURSIVE ParseValue(_, _)
RECURSIVE ParseMembers(_, _, _)
RECURSIVE ParseElements(_, _, _)

\* The members of an object from index i, where a key is expected.
ParseMembers(s, i, acc) ==
    IF CharAt(s, i) # "\"" THEN ParseFail
    ELSE LET key == ParseStringBody(s, i + 1)
         IN  IF ~key.ok THEN ParseFail
             ELSE LET c == SkipWs(s, key.next)
                  IN  IF CharAt(s, c) # ":" THEN ParseFail
                      ELSE LET val == ParseValue(s, c + 1)
                           IN  IF ~val.ok THEN ParseFail
                               ELSE LET e   == SkipWs(s, val.next)
                                        now == Put(acc, key.v, val.v)
                                    IN  IF CharAt(s, e) = ","
                                        THEN ParseMembers(s, SkipWs(s, e + 1), now)
                                        ELSE IF CharAt(s, e) = "}"
                                        THEN Parsed(now, e + 1)
                                        ELSE ParseFail

\* The elements of an array from index i, where a value is expected.
ParseElements(s, i, acc) ==
    LET val == ParseValue(s, i)
    IN  IF ~val.ok THEN ParseFail
        ELSE LET e   == SkipWs(s, val.next)
                 now == Append(acc, val.v)
             IN  IF CharAt(s, e) = "," THEN ParseElements(s, e + 1, now)
                 ELSE IF CharAt(s, e) = "]" THEN Parsed(Arr(now), e + 1)
                 ELSE ParseFail

ParseValue(s, i0) ==
    LET i == SkipWs(s, i0)
        c == CharAt(s, i)
    IN  CASE c = "{" ->
               LET j == SkipWs(s, i + 1)
               IN  IF CharAt(s, j) = "}" THEN Parsed(Obj(<< >>), j + 1)
                   ELSE ParseMembers(s, j, Obj(<< >>))
          [] c = "[" ->
               LET j == SkipWs(s, i + 1)
               IN  IF CharAt(s, j) = "]" THEN Parsed(Arr(<< >>), j + 1)
                   ELSE ParseElements(s, j, << >>)
          [] c = "\"" ->
               LET b == ParseStringBody(s, i + 1)
               IN  IF b.ok THEN Parsed(Str(b.v), b.next) ELSE ParseFail
          [] c = "-" \/ InSeq(c, Digits) -> ParseNumber(s, i)
          [] c = "t" -> IF HasPrefixAt(s, i, Text_true)
                        THEN Parsed(Bool(TRUE), i + 4) ELSE ParseFail
          [] c = "f" -> IF HasPrefixAt(s, i, Text_false)
                        THEN Parsed(Bool(FALSE), i + 5) ELSE ParseFail
          [] c = "n" -> IF HasPrefixAt(s, i, Text_null)
                        THEN Parsed(Null, i + 4) ELSE ParseFail
          [] OTHER -> ParseFail

\* JSON.parse(text): [ok |-> TRUE, v |-> value], or ok = FALSE for the
\* SyntaxError it throws.
JSON_parse(text) ==
    LET r == ParseValue(text, 1)
    IN  IF r.ok /\ SkipWs(text, r.next) = Len(text) + 1
        THEN [ok |-> TRUE, v |-> r.v]
        ELSE [ok |-> FALSE, v |-> Undefined]

(***************************************************************************)
(* Property names and message texts of route.ts                            *)
(***************************************************************************)

Key_mode == << "m", "o", "d", "e" >>

Key_intro == << "i", "n", "t", "r", "o" >>

Key_sections == << "s", "e", "c", "t", "i", "o", "n", "s" >>

Key_title == << "t", "i", "t", "l", "e" >>

Key_teaser == << "t", "e", "a", "s", "e", "r" >>

Key_url == << "u", "r", "l" >>

Key_ingredients == << "i", "n", "g", "r", "e", "d", "i", "e", "n", "t", "s" >>

Key_steps == << "s", "t", "e", "p", "s" >>

Key_group == << "g", "r", "o", "u", "p" >>

Key_items == << "i", "t", "e", "m", "s" >>

Key_notes == << "n", "o", "t", "e", "s" >>

Key_used_ingredients ==
    << "u", "s", "e", "d", "_", "i", "n", "g", "r", "e", "d", "i", "e", "n", "t", "s" >>

Key_suggested_additions ==
    << "s", "u", "g", "g", "e", "s", "t", "e", "d", "_",
       "a", "d", "d", "i", "t", "i", "o", "n", "s" >>

Key_choices == << "c", "h", "o", "i", "c", "e", "s" >>

Key_message == << "m", "e", "s", "s", "a", "g", "e" >>

Key_content == << "c", "o", "n", "t", "e", "n", "t" >>

Key_prompt == << "p", "r", "o", "m", "p", "t" >>

Key_modelId == << "m", "o", "d", "e", "l", "I", "d" >>

Key_strict == << "s", "t", "r", "i", "c", "t" >>

Key_error == << "e", "r", "r", "o", "r" >>

Key_details == << "d", "e", "t", "a", "i", "l", "s" >>

Key_raw == << "r", "a", "w" >>

Key_parsed == << "p", "a", "r", "s", "e", "d" >>

Text_landing == << "l", "a", "n", "d", "i", "n", "g" >>

Text_recipe == << "r", "e", "c", "i", "p", "e" >>

\* "/recipes/"
Text_recipesPath == << "/", "r", "e", "c", "i", "p", "e", "s", "/" >>

Msg_MissingPrompt ==
    << "M", "i", "s", "s", "i", "n", "g", " ", "p", "r", "o", "m", "p", "t" >>

Msg_MissingKey ==
    << "M", "i", "s", "s", "i", "n", "g", " ", "F", "I", "R", "E", "W", "O", "R", "K", "S",
       "_", "A", "P", "I", "_", "K", "E", "Y" >>

Msg_FireworksError ==
    << "F", "i", "r", "e", "w", "o", "r", "k", "s", " ", "e", "r", "r", "o", "r" >>

Msg_RetryFailed ==
    << "F", "i", "r", "e", "w", "o", "r", "k", "s", " ", "r", "e", "t", "r", "y", " ",
       "f", "a", "i", "l", "e", "d" >>

Msg_InvalidJSON ==
    << "I", "n", "v", "a", "l", "i", "d", " ", "J", "S", "O", "N", " ", "f", "r", "o", "m",
       " ", "m", "o", "d", "e", "l" >>

Msg_LandingInvalid ==
    << "L", "a", "n", "d", "i", "n", "g", " ", "s", "h", "a", "p", "e", " ",
       "i", "n", "v", "a", "l", "i", "d" >>

Msg_RecipeInvalid ==
    << "R", "e", "c", "i", "p", "e", " ", "s", "h", "a", "p", "e", " ",
       "i", "n", "v", "a", "l", "i", "d" >>

Msg_UnknownMode ==
    << "U", "n", "k", "n", "o", "w", "n", " ", "m", "o", "d", "e" >>

\* The message of a TypeError the engine throws (reading a property of null
\* or undefined, calling what is not a function); its wording is the
\* engine's, the model keeps one text for all of them.
Msg_TypeError == << "T", "y", "p", "e", "E", "r", "r", "o", "r" >>

\* The message of the SyntaxError of a body that is not JSON.
Msg_SyntaxError == << "S", "y", "n", "t", "a", "x", "E", "r", "r", "o", "r" >>

\* The message of the error fetch rejects with on a network failure.
Msg_FetchFailed == << "f", "e", "t", "c", "h", " ", "f", "a", "i", "l", "e", "d" >>

(***************************************************************************)
(* Evaluation results: a value, or a thrown Error with its message         *)
(***************************************************************************)

Ok(v) == [threw |-> FALSE, v |-> v, message |-> << >>]

Throw(message) == [threw |-> TRUE, v |-> Undefined, message |-> message]

\* NextResponse.json(body, { status })
Response(status, body) == [status |-> status, body |-> body]

ErrorBody(error) == Obj(<< Member(Key_error, Str(error)) >>)

ErrorBodyWith(error, key, v) == Obj(<< Member(Key_error, Str(error)), Member(key, v) >>)

\* What JSON.stringify keeps of a value: members whose value is undefined are
\* dropped at every depth, undefined array elements become null.
RECURSIVE Serialized(_)
Serialized(v) ==
    CASE v.t = "array" ->
            Arr([i \in 1..Len(v.a) |->
                   IF v.a[i].t = "undefined" THEN Null ELSE Serialized(v.a[i])])
      [] v.t = "object" ->
            LET kept == SelectSeq(v.m, LAMBDA e : e.v.t # "undefined")
            IN  Obj([i \in 1..Len(kept) |-> Member(kept[i].k, Serialized(kept[i].v))])
      [] OTHER -> v

(***************************************************************************)
(* Response extraction (route.ts lines 163-177)                            *)
(***************************************************************************)

\* v?.k
OptGet(v, k) == IF Nullish(v) THEN Undefined ELSE Get(v, k)

\* v?.[0]
OptFirst(v) ==
    IF v.t = "array" /\ Len(v.a) > 0 THEN v.a[1]
    ELSE IF v.t = "string" /\ Len(v.s) > 0 THEN Str(<< v.s[1] >>)
    ELSE IF v.t = "object" THEN Get(v, << "0" >>)
    ELSE Undefined

\* data?.choices?.[0]?.message?.content ?? ""
CompletionOf(data) ==
    LET content == OptGet(OptGet(OptFirst(OptGet(data, Key_choices)), Key_message),
                          Key_content)
    IN  IF Nullish(content) THEN Str(<< >>) ELSE content

\* raw.match(/\{[\s\S]*\}$/): the match starts at the first "{" that has a
\* "}" at the very end of the text after it ($ without the m flag is the end
\* of the input) and runs to that end; [ok |-> FALSE] for null.
MatchBraces(raw) ==
    LET n      == Len(raw)
        starts == {i \in 1..(n - 1) : raw[i] = "{"}
    IN  IF n >= 2 /\ raw[n] = "}" /\ starts # {}
        THEN [ok |-> TRUE,
              text |-> SubSeq(raw, CHOOSE i \in starts : \A j \in starts : i <= j, n)]
        ELSE [ok |-> FALSE, text |-> << >>]

\* const match = raw.match(...); if (match) raw = match[0];
RawJson(raw) == IF MatchBraces(raw).ok THEN MatchBraces(raw).text ELSE raw

(***************************************************************************)
(* Shape validation and normalization (route.ts lines 179-233)             *)
(***************************************************************************)

MaxSectionsKept == 8

Min(a, b) == IF a <= b THEN a ELSE b

\* SliceSections, keeping the last 8 entries (slice(-8)).
SliceSections_last(a) == SubSeq(a, Len(a) - Min(Len(a), MaxSectionsKept) + 1, Len(a))

\* parsed.sections.slice(0, 8)
SliceSections(a) == SubSeq(a, 1, Min(Len(a), MaxSectionsKept))

\* The map callback of lines 186-192 throws a TypeError on a section that is
\* null, whose title is not a string, or whose url or teaser is neither a
\* string nor null nor absent.
SectionThrows(s) ==
    \/ Nullish(s)
    \/ Get(s, Key_title).t # "string"
    \/ Get(s, Key_url).t \notin {"string", "null", "undefined"}
    \/ Get(s, Key_teaser).t \notin {"string", "null", "undefined"}

\* const title = s.title.toUpperCase().trim();
SectionTitle(s) == trim(toUpperCase(Get(s, Key_title).s))

\* SectionUrl, passing every non-empty url through (s.url ? s.url : ...).
SectionUrl_passThrough(s, title) ==
    LET u == Get(s, Key_url)
    IN  IF u.t = "string" /\ Len(u.s) > 0
        THEN u.s
        ELSE Text_recipesPath \o slugify(title)

\* s.url?.startsWith("/") ? s.url : `/recipes/${slugify(title)}`
SectionUrl(s, title) ==
    LET u == Get(s, Key_url)
    IN  IF u.t = "string" /\ startsWith(u.s, << "/" >>)
        THEN u.s
        ELSE Text_recipesPath \o slugify(title)

\* s.teaser?.trim() ?? ""
SectionTeaser(s) ==
    LET t == Get(s, Key_teaser)
    IN  IF Nullish(t) THEN << >> ELSE trim(t.s)

\* return { title, teaser: ..., url };
NormalizeSection(s) ==
    Obj(<< Member(Key_title, Str(SectionTitle(s))),
           Member(Key_teaser, Str(SectionTeaser(s))),
           Member(Key_url, Str(SectionUrl(s, SectionTitle(s)))) >>)

\* parsed.sections.slice(0, 8).map(...)
NormalizeSections(a) ==
    LET kept == SliceSections(a)
    IN  IF \E i \in 1..Len(kept) : SectionThrows(kept[i])
        THEN Throw(Msg_TypeError)
        ELSE Ok(Arr([i \in 1..Len(kept) |-> NormalizeSection(kept[i])]))

\* The landing branch, lines 179-194.
LandingResponse(parsed) ==
    IF Get(parsed, Key_intro).t # "string" \/ Get(parsed, Key_sections).t # "array"
    THEN Ok(Response(502, ErrorBodyWith(Msg_LandingInvalid, Key_parsed, Serialized(parsed))))
    ELSE LET r == NormalizeSections(Get(parsed, Key_sections).a)
         IN  IF r.threw THEN r
             ELSE Ok(Response(200, Serialized(Put(parsed, Key_sections, r.v))))

\* xs.map((s) => String(s).trim())
TrimAll(a) == [i \in 1..Len(a) |-> Str(trim(String(a[i])))]

\* TrimAndDropEmpty, without the filter.
TrimAndDropEmpty_keepEmpty(a) == [i \in 1..Len(a) |-> Str(trim(String(a[i])))]

\* xs.map((s) => String(s).trim()).filter(Boolean)
TrimAndDropEmpty(a) == SelectSeq(TrimAll(a), Truthy)

\* The map callback of lines 208-213.
NormalizeGroup(g) ==
    Obj(<< Member(Key_group,
                  IF Truthy(Get(g, Key_group))
                  THEN Str(trim(String(Get(g, Key_group))))
                  ELSE Undefined),
           Member(Key_items,
                  IF Get(g, Key_items).t = "array"
                  THEN Arr(TrimAndDropEmpty(Get(g, Key_items).a))
                  ELSE Arr(<< >>)) >>)

\* (parsed.k ?? []).map((s) => String(s).trim()): a TypeError when parsed.k
\* is neither absent, null nor an array.
DefaultedList(parsed, k) ==
    LET u == Get(parsed, k)
    IN  IF Nullish(u) THEN Ok(Arr(<< >>))
        ELSE IF u.t = "array" THEN Ok(Arr(TrimAll(u.a)))
        ELSE Throw(Msg_TypeError)

\* if (parsed.intro) parsed.intro = String(parsed.intro).trim();
WithIntro(parsed) ==
    IF Truthy(Get(parsed, Key_intro))
    THEN Put(parsed, Key_intro, Str(trim(String(Get(parsed, Key_intro)))))
    ELSE parsed

\* The recipe branch, lines 196-228.
RecipeResponse(parsed) ==
    IF \/ Get(parsed, Key_title).t # "string"
       \/ Get(parsed, Key_ingredients).t # "array"
       \/ Get(parsed, Key_steps).t # "array"
    THEN Ok(Response(502, ErrorBodyWith(Msg_RecipeInvalid, Key_parsed, Serialized(parsed))))
    ELSE LET groups == Get(parsed, Key_ingredients).a
             used   == DefaultedList(parsed, Key_used_ingredients)
             sugg   == DefaultedList(parsed, Key_suggested_additions)
             p1     == Put(parsed, Key_title, Str(trim(Get(parsed, Key_title).s)))
             p2     == Put(p1, Key_ingredients,
                           Arr([i \in 1..Len(groups) |-> NormalizeGroup(groups[i])]))
             p3     == Put(p2, Key_steps,
                           Arr(TrimAndDropEmpty(Get(parsed, Key_steps).a)))
             p4     == WithIntro(p3)
             p5     == Put(p4, Key_used_ingredients, used.v)
             p6     == Put(p5, Key_suggested_additions, sugg.v)
         IN  IF \E i \in 1..Len(groups) : Nullish(groups[i]) THEN Throw(Msg_TypeError)
             ELSE IF used.threw THEN used
             ELSE IF sugg.threw THEN sugg
             ELSE Ok(Response(200, Serialized(p6)))

\* ModeIs, comparing without regard to case.
ModeIs_anyCase(parsed, m) ==
    Get(parsed, Key_mode).t = "string" /\ toLowerCase(Get(parsed, Key_mode).s) = m

\* parsed.mode === m
ModeIs(parsed, m) == Get(parsed, Key_mode) = Str(m)

\* Lines 179-233: the response for a parsed completion, or the TypeError
\* thrown on the way (reading parsed.mode of null included).
Validated(parsed) ==
    IF Nullish(parsed) THEN Throw(Msg_TypeError)
    ELSE IF ModeIs(parsed, Text_landing) THEN LandingResponse(parsed)
    ELSE IF ModeIs(parsed, Text_recipe) THEN RecipeResponse(parsed)
    ELSE Ok(Response(502, ErrorBodyWith(Msg_UnknownMode, Key_parsed, Serialized(parsed))))

\* Lines 234-239: the catch of POST turns a thrown Error into a 500 whose
\* error text is the Error's message.
Caught(r) == IF r.threw THEN Response(500, ErrorBody(r.message)) ELSE r.v

(***************************************************************************)
(* The retrying transport (route.ts lines 37-55)                           *)
(***************************************************************************)

\* tries = 3
Tries == 3

BackoffBase == 300

\* res.ok
IsOk(status) == status >= 200 /\ status <= 299

\* Retryable, forgetting 429.
Retryable_only5xx(status) == status >= 500 /\ status < 600

\* res.status === 429 || (res.status >= 500 && res.status < 600)
Retryable(status) == status = 429 \/ (status >= 500 /\ status < 600)

\* const wait = 300 * Math.pow(2, i);
BackoffWait(n) == BackoffBase * 2 ^ n

\* LoopContinues, off by one.
LoopContinues_offByOne(n) == n <= Tries

\* The loop condition i < tries.
LoopContinues(n) == n < Tries

\* CapturedBody, keeping the first body captured.
CapturedBody_first(previous, res) ==
    IF previous.t = "string" THEN previous ELSE Str(res.text)

\* lastErr = await res.text();
CapturedBody(previous, res) == Str(res.text)

\* typeof lastErr === "string" ? lastErr : "Fireworks retry failed"
ExhaustedMessage(last) == IF last.t = "string" THEN last.s ELSE Msg_RetryFailed

(***************************************************************************)
(* The request handler POST (route.ts lines 108-240)                       *)
(***************************************************************************)

\* "accounts/fireworks/models/llama-v3p1-8b-instruct"
Text_defaultModel ==
    << "a", "c", "c", "o", "u", "n", "t", "s", "/", "f", "i", "r", "e", "w", "o",
       "r", "k", "s", "/", "m", "o", "d", "e", "l", "s", "/", "l", "l", "a", "m",
       "a", "-", "v", "3", "p", "1", "-", "8", "b", "-", "i", "n", "s", "t", "r",
       "u", "c", "t" >>

\* PromptInvalid, without the typeof test.
PromptInvalid_noTypeof(prompt) == ~Truthy(prompt)

\* !prompt || typeof prompt !== "string"
PromptInvalid(prompt) == ~Truthy(prompt) \/ prompt.t # "string"

\* process.env.FIREWORKS_MODEL ?? "accounts/..."
DefaultModel(e) ==
    IF Nullish(e.FIREWORKS_MODEL) THEN Str(Text_defaultModel) ELSE e.FIREWORKS_MODEL

\* modelId || defaultModel
EffectiveModel(modelId, e) == IF Truthy(modelId) THEN modelId ELSE DefaultModel(e)

NoResponse == [status |-> 0, text |-> << >>]

NoResult == Response(0, Undefined)

VARIABLES
    env,        \* process.env: FIREWORKS_API_KEY and FIREWORKS_MODEL
    reqBody,    \* what req.json() yields: the body's value, or the error thrown
    pc,         \* the handler's stage
    model,      \* the model identifier sent to the provider
    i,          \* fwFetchWithRetry's loop counter
    attempts,   \* calls of fetch made so far
    responses,  \* the responses fetch has returned, in order
    delays,     \* the waits of setTimeout, in order, in ms
    lastErr,    \* fwFetchWithRetry's lastErr
    fwRes,      \* the response fwFetchWithRetry returned
    parsed,     \* the value JSON.parse gave for the completion
    result      \* the response POST returned

vars ==
    << env, reqBody, pc, model, i, attempts, responses, delays, lastErr, fwRes,
       parsed, result >>

\* POST returns `response`.
Return(response) ==
    /\ pc' = "Done"
    /\ result' = response

\* Lines 109-128: read the body, validate the prompt and the credential,
\* resolve the model, and enter fwFetchWithRetry.
Receive ==
    /\ pc = "Idle"
    /\ IF reqBody.threw
       THEN Return(Caught(reqBody)) /\ UNCHANGED << model, i >>
       ELSE IF Nullish(reqBody.v)
       THEN Return(Caught(Throw(Msg_TypeError))) /\ UNCHANGED << model, i >>
       ELSE IF PromptInvalid(Get(reqBody.v, Key_prompt))
       THEN Return(Response(400, ErrorBody(Msg_MissingPrompt))) /\ UNCHANGED << model, i >>
       ELSE IF ~Truthy(env.FIREWORKS_API_KEY)
       THEN Return(Response(500, ErrorBody(Msg_MissingKey))) /\ UNCHANGED << model, i >>
       ELSE /\ pc' = "AwaitingProvider"
            /\ model' = EffectiveModel(Get(reqBody.v, Key_modelId), env)
            /\ i' = 0
            /\ UNCHANGED result
    /\ UNCHANGED << env, reqBody, attempts, responses, delays, lastErr, fwRes, parsed >>

\* Line 40, when fetch rejects: the error leaves fwFetchWithRetry and is
\* caught by POST (lines 234-239).
FetchThrows ==
    /\ pc = "AwaitingProvider"
    /\ LoopContinues(i)
    /\ attempts' = attempts + 1
    /\ Return(Caught(Throw(Msg_FetchFailed)))
    /\ UNCHANGED << env, reqBody, model, i, responses, delays, lastErr, fwRes, parsed >>

\* Lines 40-50, when fetch resolves with res: return it when it is ok or not
\* retryable, else go on to the wait.
FetchReturns(res) ==
    /\ pc = "AwaitingProvider"
    /\ LoopContinues(i)
    /\ attempts' = attempts + 1
    /\ responses' = Append(responses, res)
    /\ IF IsOk(res.status) \/ ~Retryable(res.status)
       THEN pc' = "ExtractingResponse" /\ fwRes' = res
       ELSE pc' = "Backoff" /\ UNCHANGED fwRes
    /\ UNCHANGED << env, reqBody, model, i, delays, lastErr, parsed, result >>

\* Lines 44-47: wait, capture the body, continue with i + 1.
Backoff ==
    /\ pc = "Backoff"
    /\ delays' = Append(delays, BackoffWait(i))
    /\ lastErr' = CapturedBody(lastErr, responses[Len(responses)])
    /\ i' = i + 1
    /\ pc' = "AwaitingProvider"
    /\ UNCHANGED << env, reqBody, model, attempts, responses, fwRes, parsed, result >>

\* Lines 52-54, the loop over: throw, caught by POST (lines 234-239).
Exhausted ==
    /\ pc = "AwaitingProvider"
    /\ ~LoopContinues(i)
    /\ Return(Caught(Throw(ExhaustedMessage(lastErr))))
    /\ UNCHANGED << env, reqBody, model, i, attempts, responses, delays, lastErr,
                    fwRes, parsed >>

\* Lines 155-177: a response that is not ok is a 502 with its body; an ok
\* one is read as JSON, its completion text taken, cut to the braces match
\* and parsed.
Extract ==
    /\ pc = "ExtractingResponse"
    /\ LET data == JSON_parse(fwRes.text)
           raw0 == CompletionOf(data.v)
           raw  == RawJson(raw0.s)
           p    == JSON_parse(raw)
       IN  IF ~IsOk(fwRes.status)
           THEN Return(Response(502, ErrorBodyWith(Msg_FireworksError, Key_details,
                                                   Str(fwRes.text))))
                /\ UNCHANGED parsed
           ELSE IF ~data.ok
           THEN Return(Caught(Throw(Msg_SyntaxError))) /\ UNCHANGED parsed
           ELSE IF raw0.t # "string"
           THEN Return(Caught(Throw(Msg_TypeError))) /\ UNCHANGED parsed
           ELSE IF ~p.ok
           THEN Return(Response(502, ErrorBodyWith(Msg_InvalidJSON, Key_raw, Str(raw))))
                /\ UNCHANGED parsed
           ELSE /\ pc' = "Validating"
                /\ parsed' = p.v
                /\ UNCHANGED result
    /\ UNCHANGED << env, reqBody, model, i, attempts, responses, delays, lastErr, fwRes >>

\* Lines 179-239: validate and normalize by mode, and return.
Validate ==
    /\ pc = "Validating"
    /\ Return(Caught(Validated(parsed)))
    /\ UNCHANGED << env, reqBody, model, i, attempts, responses, delays, lastErr,
                    fwRes, parsed >>

(***************************************************************************)
(* Inputs: the environment, the requests and the provider's responses      *)
(***************************************************************************)

\* The provider's error bodies are "" and the first MaxErrorTexts letters.
MaxErrorTexts == 1

ErrorTexts == {<< >>} \cup {<< LowerLetters[n] >> : n \in 1..MaxErrorTexts}

Envs ==
    { [FIREWORKS_API_KEY |-> Undefined, FIREWORKS_MODEL |-> Undefined],
      [FIREWORKS_API_KEY |-> Str(<< >>), FIREWORKS_MODEL |-> Undefined],
      [FIREWORKS_API_KEY |-> Str(<< "k" >>), FIREWORKS_MODEL |-> Undefined],
      [FIREWORKS_API_KEY |-> Str(<< "k" >>), FIREWORKS_MODEL |-> Str(<< "e" >>)] }

\* A request body { prompt, modelId, strict }; an undefined member is absent.
Request(prompt, modelId, strict) ==
    Ok(Serialized(Obj(<< Member(Key_prompt, prompt), Member(Key_modelId, modelId),
                        Member(Key_strict, strict) >>)))

Text_hi == << "h", "i" >>

RequestBodies ==
    { Throw(Msg_SyntaxError),
      Ok(Null),
      Request(Undefined, Undefined, Undefined),
      Request(Undefined, Str(<< "m" >>), Bool(TRUE)),
      Request(Str(<< >>), Undefined, Undefined),
      Request(Str(<< >>), Str(<< "m" >>), Bool(FALSE)),
      Request(Null, Undefined, Undefined),
      Request(Num(5), Undefined, Bool(TRUE)),
      Request(Arr(<< Str(Text_hi) >>), Undefined, Undefined),
      Ok(Num(5)),
      Request(Str(Text_hi), Undefined, Undefined),
      Request(Str(Text_hi), Str(<< "m" >>), Bool(TRUE)) }

Landing(intro, sections) ==
    Serialized(Obj(<< Member(Key_mode, Str(Text_landing)), Member(Key_intro, intro),
                      Member(Key_sections, sections) >>))

Section(title, teaser, url) ==
    Serialized(Obj(<< Member(Key_title, title), Member(Key_teaser, teaser),
                      Member(Key_url, url) >>))

Recipe(title, ingredients, steps, used) ==
    Serialized(Obj(<< Member(Key_mode, Str(Text_recipe)), Member(Key_title, title),
                      Member(Key_ingredients, ingredients), Member(Key_steps, steps),
                      Member(Key_used_ingredients, used) >>))

Group(group, items) ==
    Serialized(Obj(<< Member(Key_group, group), Member(Key_items, items) >>))

\* The recipe of the spec's end-to-end scenario, shortened.
SampleRecipe ==
    Recipe(Str(<< " ", "t", " " >>),
           Arr(<< Group(Undefined, Arr(<< Str(<< "a" >>), Str(<< " " >>), Str(<< "b" >>) >>)) >>),
           Arr(<< Str(<< " ", "s" >>), Str(<< "r" >>) >>),
           Undefined)

SampleLanding ==
    Landing(Str(<< "i" >>),
            Arr(<< Section(Str(<< " ", "a", " ", "B" >>), Undefined, Str(<< "x" >>)),
                   Section(Str(<< "c" >>), Str(<< " ", "t" >>), Str(<< "/", "c" >>)) >>))

\* Values a completion may hold that fail validation or make it throw.
OddValues ==
    { Null, Num(5), Bool(TRUE), Str(<< "x" >>), Arr(<< >>), Obj(<< >>),
      Obj(<< Member(Key_mode, Str(<< "s", "u", "m", "m", "a", "r", "y" >>)) >>),
      Obj(<< Member(Key_mode, Num(1)) >>),
      Obj(<< Member(Key_mode, Str(<< "L", "a", "n", "d", "i", "n", "g" >>)),
             Member(Key_intro, Str(<< >>)), Member(Key_sections, Arr(<< >>)) >>),
      Landing(Undefined, Arr(<< >>)),
      Landing(Str(<< >>), Undefined),
      Landing(Str(<< >>), Arr(<< Obj(<< >>) >>)),
      Landing(Str(<< >>), Arr(<< Null >>)),
      Landing(Str(<< >>), Arr(<< Section(Str(<< "a" >>), Num(1), Undefined) >>)),
      Recipe(Undefined, Arr(<< >>), Arr(<< >>), Undefined),
      Recipe(Str(<< "t" >>), Arr(<< >>), Undefined, Undefined),
      Recipe(Str(<< "t" >>), Arr(<< Null >>), Arr(<< >>), Undefined),
      Recipe(Str(<< "t" >>), Arr(<< >>), Arr(<< >>), Str(<< "x" >>)) }

GoodValues ==
    { SampleRecipe, SampleLanding, Landing(Str(<< >>), Arr(<< >>)),
      Recipe(Str(<< "t" >>), Arr(<< Num(3) >>), Arr(<< Num(7) >>), Arr(<< Str(<< " " >>) >>)) }

\* A Markdown code fence.
Text_fence == << "~", "~", "~" >>

\* Completion texts: the JSON of a value, alone or with text around it, and
\* texts that are no JSON.
CompletionTexts ==
    {JSON_stringify(v) : v \in OddValues \cup GoodValues}
    \cup { << >>, Text_hi,
           << "O", "k", ":", " " >> \o JSON_stringify(SampleRecipe),
           << "{", "x", "}", " " >> \o JSON_stringify(SampleRecipe),
           JSON_stringify(SampleRecipe) \o << "\n" >>,
           Text_fence \o << "\n" >> \o JSON_stringify(SampleRecipe) \o << "\n" >> \o Text_fence }

\* The provider's envelope around a completion.
Envelope(content) ==
    Obj(<< Member(Key_choices,
                  Arr(<< Obj(<< Member(Key_message,
                                       Obj(<< Member(Key_content, content) >>)) >>) >>)) >>)

\* The bodies of 2xx responses.
OkBodies ==
    {JSON_stringify(Envelope(Str(t))) : t \in CompletionTexts}
    \cup { << "<", "h", "t", "m", "l", ">" >>,
           Text_null,
           JSON_stringify(Obj(<< >>)),
           JSON_stringify(Obj(<< Member(Key_choices, Arr(<< >>)) >>)),
           JSON_stringify(Envelope(Null)),
           JSON_stringify(Envelope(Num(5))) }

OkStatuses == {200}

RetryStatuses == {429, 500, 599}

OtherStatuses == {404, 499}

ProviderResponses ==
    [status : OkStatuses, text : OkBodies]
    \cup [status : RetryStatuses \cup OtherStatuses, text : ErrorTexts]

(***************************************************************************)
(* Specification: one invocation of POST                                   *)
(***************************************************************************)

Init ==
    /\ env \in Envs
    /\ reqBody \in RequestBodies
    /\ pc = "Idle"
    /\ model = Undefined
    /\ i = 0
    /\ attempts = 0
    /\ responses = << >>
    /\ delays = << >>
    /\ lastErr = Undefined
    /\ fwRes = NoResponse
    /\ parsed = Undefined
    /\ result = NoResult

Next ==
    \/ Receive
    \/ FetchThrows
    \/ \E res \in ProviderResponses : FetchReturns(res)
    \/ Backoff
    \/ Exhausted
    \/ Extract
    \/ Validate

Spec == Init /\ [][Next]_vars

(***************************************************************************)
(* Specification: extraction alone, on completions made of commentary      *)
(* followed by a JSON object                                               *)
(***************************************************************************)

\* Commentary is at most MaxCommentLen characters of CommentAlphabet.
MaxCommentLen == 3

CommentAlphabet == {"a", " ", "\n", "{", "}"}

TextsUpTo(alphabet, n) == UNION {[1..k -> alphabet] : k \in 0..n}

Commentaries == TextsUpTo(CommentAlphabet, MaxCommentLen)

\* The objects that end the completion: empty, nested, with a brace inside a
\* string, and a recipe.
TrailingObjects ==
    { Obj(<< >>),
      Obj(<< Member(<< "a" >>, Obj(<< Member(<< "b" >>, Num(1)) >>)) >>),
      Obj(<< Member(<< "a" >>, Str(<< "}", "{" >>)) >>),
      SampleRecipe }

CommentedBodies ==
    {JSON_stringify(Envelope(Str(c \o JSON_stringify(o)))) :
        c \in Commentaries, o \in TrailingObjects}

\* POST with a valid request, after fwFetchWithRetry returned `res` from its
\* first attempt.
AfterFirstFetch(res) ==
    /\ env = [FIREWORKS_API_KEY |-> Str(<< "k" >>), FIREWORKS_MODEL |-> Undefined]
    /\ reqBody = Request(Str(Text_hi), Undefined, Undefined)
    /\ model = Str(Text_defaultModel)
    /\ i = 0
    /\ attempts = 1
    /\ responses = << res >>
    /\ delays = << >>
    /\ lastErr = Undefined
    /\ fwRes = res

InitExtract ==
    /\ \E res \in [status : OkStatuses, text : CommentedBodies] : AfterFirstFetch(res)
    /\ pc = "ExtractingResponse"
    /\ parsed = Undefined
    /\ result = NoResult

NextExtract == Extract \/ Validate

SpecExtract == InitExtract /\ [][NextExtract]_vars

(***************************************************************************)
(* Specification: validation and normalization alone, on parsed values     *)
(***************************************************************************)

\* Landing inputs have up to MaxSections sections, and section titles of up
\* to MaxTitleLen characters of TitleAlphabet.
MaxSections == 9

MaxTitleLen == 3

TitleAlphabet == {"a", "B", " ", "!", "-", SharpS}

SectionSamples ==
    { Section(Str(<< "a" >>), Undefined, Undefined),
      Section(Str(<< " ", "b", " ", "C" >>), Str(<< " ", "t" >>), Str(<< "/", "x" >>)) }

UrlSamples ==
    { Undefined, Null, Str(<< >>), Str(<< "x" >>), Str(<< "/" >>), Str(<< "/", "x", " " >>),
      Str(<< " ", "/", "x" >>),
      Str(<< "h", "t", "t", "p", ":", "/", "/", "x" >>) }

\* Landing objects with many sections.
LongLandings ==
    {Landing(Str(<< " ", "i" >>), Arr(ss)) :
        ss \in UNION {[1..k -> SectionSamples] : k \in 0..MaxSections}}

\* Landing objects with one section, of any title and url of the samples.
TitledLandings ==
    {Landing(Str(<< >>), Arr(<< Section(Str(t), Undefined, u) >>)) :
        t \in TextsUpTo(TitleAlphabet, MaxTitleLen), u \in UrlSamples}

\* Landing objects with a section that makes the normalization throw, within
\* and past the first 8.
BrokenLandings ==
    {Landing(Str(<< >>), Arr([n \in 1..k |-> Section(Str(<< "a" >>), Undefined, Undefined)]
                             \o << bad >>)) :
        k \in {0, 7, 8}, bad \in {Null, Obj(<< >>), Section(Str(<< "a" >>), Undefined, Num(1))}}

ItemSamples == {Str(<< "a" >>), Str(<< " ", "b", " " >>), Str(<< " " >>), Str(<< >>), Num(5)}

\* Recipe objects with one ingredient group of up to two items, two steps and
\* a list of used ingredients.
SampleRecipes ==
    {Recipe(Str(<< " ", "t" >>), Arr(<< Group(g, Arr(items)) >>), Arr(items), used) :
        g \in {Undefined, Str(<< " ", "g" >>)},
        items \in UNION {[1..k -> ItemSamples] : k \in 0..2},
        used \in {Undefined, Arr(<< Str(<< " " >>), Str(<< "u", " " >>) >>)}}

\* Recipe objects with every field the handler reads or passes on, whose
\* lists of texts (with blank and padded elements between plain ones), group
\* name (absent, empty, blank, padded) and intro vary.
FullRecipes ==
    LET RecipeWith(title, ingredients, steps, intro, notes, used, suggested) ==
            Serialized(Obj(<< Member(Key_mode, Str(Text_recipe)),
                              Member(Key_title, title),
                              Member(Key_intro, intro),
                              Member(Key_ingredients, ingredients),
                              Member(Key_steps, steps),
                              Member(Key_notes, notes),
                              Member(Key_used_ingredients, used),
                              Member(Key_suggested_additions, suggested) >>))
        GroupNames == {Undefined, Str(<< >>), Str(<< " " >>), Str(<< " ", "g", " " >>)}
        TextLists ==
            { Arr(<< >>),
              Arr(<< Str(<< " ", "b", " " >>), Str(<< " " >>), Str(<< "a" >>) >>),
              Arr(<< Str(<< >>), Str(<< "a" >>), Str(<< "\t" >>),
                     Str(<< "a", " ", "b" >>), Str(<< "\n", "c" >>) >>) }
    IN  {RecipeWith(Str(<< " ", "t" >>),
                    Arr(<< Group(g, items), Group(Undefined, steps) >>),
                    steps, intro, notes, used, suggested) :
            g \in GroupNames, items \in TextLists, steps \in TextLists,
            intro \in {Undefined, Str(<< " " >>), Str(<< " ", "i", " " >>)},
            notes \in {Undefined} \cup (TextLists \ {Arr(<< >>)}),
            used \in {Undefined, Arr(<< Str(<< " ", "u" >>), Str(<< " " >>) >>)},
            suggested \in {Null, Arr(<< Str(<< >>), Str(<< "s", " " >>) >>)}}

NormalizerInputs ==
    LongLandings \cup TitledLandings \cup BrokenLandings \cup SampleRecipes
    \cup FullRecipes \cup OddValues \cup GoodValues

\* POST with a valid request, after the completion of the provider's first
\* response was parsed to `v`.
InitNormalize ==
    /\ \E v \in NormalizerInputs :
          /\ parsed = v
          /\ AfterFirstFetch([status |-> 200,
                              text |-> JSON_stringify(Envelope(Str(JSON_stringify(v))))])
    /\ pc = "Validating"
    /\ result = NoResult

NextNormalize == Validate

SpecNormalize == InitNormalize /\ [][NextNormalize]_vars

(***************************************************************************)
(* Properties                                                              *)
(***************************************************************************)

Is2xx(status) == status \in 200..299

Is429or5xx(status) == status = 429 \/ status \in 500..599

\* fwFetchWithRetry has returned a response to POST.
TransportReturned == fwRes # NoResponse

\* Every attempt of the budget was answered with a retryable status.
BudgetExhausted ==
    /\ Len(responses) = 3
    /\ \A n \in 1..3 : Is429or5xx(responses[n].status)

\* The request passes the prompt and credential validation.
PassesValidation ==
    /\ ~reqBody.threw
    /\ ~Nullish(reqBody.v)
    /\ Get(reqBody.v, Key_prompt).t = "string"
    /\ Len(Get(reqBody.v, Key_prompt).s) > 0
    /\ env.FIREWORKS_API_KEY.t = "string"
    /\ Len(env.FIREWORKS_API_KEY.s) > 0

\* The error text of a failure response.
ErrorText(response) == Get(response.body, Key_error)

\* C1: fwFetchWithRetry returns the first response that is 2xx or has a status
\* other than 429/5xx: a response of that kind is returned (not thrown) as
\* soon as fetch yields it, and when k retryable responses precede it, k <= 2,
\* it is returned after exactly k + 1 attempts and the k delays 300 * 2^i,
\* i = 0..k-1, in that order (404 first: 1 attempt, no delay; 500, 500, 200:
\* the 200 after delays 300 and 600 and 3 attempts).
C1_ReturnsFirstFinalResponse ==
    LET n == Len(responses)
    IN  /\ (n > 0 /\ (Is2xx(responses[n].status) \/ ~Is429or5xx(responses[n].status)))
              => fwRes = responses[n]
        /\ TransportReturned =>
              /\ fwRes = responses[n]
              /\ Is2xx(fwRes.status) \/ ~Is429or5xx(fwRes.status)
              /\ \A j \in 1..(n - 1) : Is429or5xx(responses[j].status)
              /\ n - 1 <= 2
              /\ attempts = n
              /\ delays = [j \in 1..(n - 1) |-> 300 * 2 ^ (j - 1)]
        /\ pc = "ExtractingResponse" => result = NoResult

C1_Witness ==
    /\ TransportReturned
    /\ [j \in 1..Len(responses) |-> responses[j].status] = << 500, 500, 200 >>
    /\ fwRes.status = 200
    /\ delays = << 300, 600 >>
    /\ attempts = 3

\* C2: when all 3 attempts are answered with a retryable status, POST fails
\* and the diagnostic text it returns is the body of the third response,
\* whatever the earlier bodies were; the generic message stands in only when
\* no body was captured.
C2_ExhaustionCarriesLastBody ==
    (pc = "Done" /\ BudgetExhausted) =>
        /\ ~Is2xx(result.status)
        /\ ErrorText(result) = Str(responses[3].text)
        /\ ErrorText(result) = Str(Msg_RetryFailed) => lastErr.t # "string"

C2_Witness ==
    /\ pc = "Done"
    /\ BudgetExhausted
    /\ responses[1].text # responses[3].text
    /\ responses[2].text # responses[3].text
    /\ ErrorText(result) = Str(responses[3].text)

\* C3: when the retry budget is exhausted (every attempt returned 429 or
\* 5xx), the failure POST returns has status 502.
C3_ExhaustionIs502 ==
    (pc = "Done" /\ BudgetExhausted) => result.status = 502

StageRank(stage) ==
    CASE stage = "Idle" -> 0
      [] stage = "AwaitingProvider" -> 1
      [] stage = "Backoff" -> 1
      [] stage = "ExtractingResponse" -> 2
      [] stage = "Validating" -> 3
      [] stage = "Done" -> 4

\* C4: the handler is a single pass: an invocation that passes validation
\* makes between 1 and 3 HTTP attempts, makes no attempt after a 2xx
\* response, a non-retryable response or a network error, never goes back to
\* an earlier stage, and ends in exactly one outcome, a payload or a failure,
\* after which nothing changes.
C4_SinglePass ==
    [][ /\ StageRank(pc') >= StageRank(pc)
        /\ pc = "Done" => FALSE
        /\ attempts' # attempts =>
              /\ attempts' = attempts + 1
              /\ attempts < 3
              /\ attempts = Len(responses)
              /\ \A n \in 1..Len(responses) : Is429or5xx(responses[n].status)
              /\ result = NoResult
        /\ pc' # "Done" => result' = NoResult
        /\ pc' = "Done" =>
              /\ result' # NoResult
              /\ Is2xx(result'.status) \/ result'.status \in 400..599
              /\ PassesValidation => attempts' \in 1..3
              /\ ~PassesValidation => attempts' = 0
      ]_vars

C4_Witness ==
    /\ pc = "Done"
    /\ PassesValidation
    /\ attempts = 3
    /\ result.status = 200

ConformsToContract(v) ==
    \/ /\ Get(v, Key_mode) = Str(Text_landing)
       /\ Get(v, Key_intro).t = "string"
       /\ Get(v, Key_sections).t = "array"
    \/ /\ Get(v, Key_mode) = Str(Text_recipe)
       /\ Get(v, Key_title).t = "string"
       /\ Get(v, Key_ingredients).t = "array"
       /\ Get(v, Key_steps).t = "array"

\* The 2xx response returned by the transport is a JSON envelope whose
\* completion is absent or text, and that completion fails extraction (it
\* holds no parseable JSON) or validation (the value parsed, of any kind,
\* conforms to neither contract).
ContentFails ==
    /\ TransportReturned
    /\ Is2xx(fwRes.status)
    /\ JSON_parse(fwRes.text).ok
    /\ CompletionOf(JSON_parse(fwRes.text).v).t = "string"
    /\ LET p == JSON_parse(RawJson(CompletionOf(JSON_parse(fwRes.text).v).s))
       IN  ~p.ok \/ ~ConformsToContract(p.v)

\* C6: every 2xx response whose content fails extraction or validation ends
\* in a failure with status 502, never 500 and never a success payload.
C6_ContentFailureIs502 ==
    (pc = "Done" /\ ContentFails) => result.status = 502

\* C7: every success payload has mode "landing" or "recipe"; a parsed object
\* whose mode is anything else, or missing, yields the "Unknown mode"
\* failure with status 502 and is never returned as a success.
C7_ModeIsOneOfTwo ==
    /\ (pc = "Done" /\ Is2xx(result.status)) =>
          Get(result.body, Key_mode) \in {Str(Text_landing), Str(Text_recipe)}
    /\ (/\ pc = "Done"
        /\ parsed.t = "object"
        /\ Get(parsed, Key_mode) \notin {Str(Text_landing), Str(Text_recipe)})
       => /\ result.status = 502
          /\ ErrorText(result) = Str(Msg_UnknownMode)

C7_Witness ==
    /\ pc = "Done"
    /\ parsed.t = "object"
    /\ Get(parsed, Key_mode) = Str(<< "s", "u", "m", "m", "a", "r", "y" >>)
    /\ result.status = 502
    /\ ErrorText(result) = Str(Msg_UnknownMode)

\* The completion text of the response the transport returned.
CompletionText == CompletionOf(JSON_parse(fwRes.text).v).s

\* C8: for every completion made of commentary followed by a balanced JSON
\* object that ends the text, extraction succeeds and the value parsed is
\* that trailing object, whatever characters (braces included) the commentary
\* holds.  Every completion of SpecExtract is of that form.
C8_TrailingObjectExtracted ==
    /\ pc = "Done" => ErrorText(result) # Str(Msg_InvalidJSON)
    /\ pc \in {"Validating", "Done"} =>
          /\ parsed \in TrailingObjects
          /\ \E c \in Commentaries : CompletionText = c \o JSON_stringify(parsed)

\* In a landing object every section is an object with a text title and a
\* teaser and a url that are text, null or absent.
ValidLanding(v) ==
    /\ v.t = "object"
    /\ Get(v, Key_mode) = Str(Text_landing)
    /\ Get(v, Key_intro).t = "string"
    /\ Get(v, Key_sections).t = "array"
    /\ \A n \in 1..Len(Get(v, Key_sections).a) :
          LET sec == Get(v, Key_sections).a[n]
          IN  /\ sec.t = "object"
              /\ Get(sec, Key_title).t = "string"
              /\ Get(sec, Key_teaser).t \in {"string", "null", "undefined"}
              /\ Get(sec, Key_url).t \in {"string", "null", "undefined"}

InputSections == Get(parsed, Key_sections).a

OutputSections == Get(result.body, Key_sections).a

\* C9: for every valid landing object with N sections the normalized payload
\* has exactly min(N, 8) sections, the i-th being the normalization of the
\* i-th input section: upper-cased trimmed title, trimmed teaser (empty when
\* absent), url kept or derived.
C9_FirstEightSectionsInOrder ==
    (pc = "Done" /\ ValidLanding(parsed)) =>
        /\ result.status = 200
        /\ OutputSections \in Seq(
              {NormalizeSection(InputSections[n]) : n \in 1..Len(InputSections)})
        /\ Len(OutputSections) = IF Len(InputSections) < 8 THEN Len(InputSections) ELSE 8
        /\ \A n \in 1..Len(OutputSections) :
              /\ OutputSections[n] = NormalizeSection(InputSections[n])
              /\ Get(OutputSections[n], Key_title)
                    = Str(trim(toUpperCase(Get(InputSections[n], Key_title).s)))

C9_Witness ==
    /\ pc = "Done"
    /\ ValidLanding(parsed)
    /\ Len(InputSections) = 9
    /\ InputSections[1] # InputSections[2]
    /\ InputSections[9] # InputSections[1]
    /\ result.status = 200
    /\ Len(OutputSections) = 8

\* slug as the claim words it: lower-case, remove every character outside
\* [a-z0-9, whitespace, -], trim, replace each whitespace run with "-".
ClaimSlug(title) ==
    LET lowered  == [n \in 1..Len(title) |-> LowerOf(title[n])]
        stripped == SelectSeq(lowered,
                              LAMBDA c : \/ InSeq(c, LowerLetters) \/ InSeq(c, Digits)
                                         \/ IsSpace(c) \/ c = "-")
        trimmed  == trim(stripped)
        NewRun(n) == IsSpace(trimmed[n]) /\ (n = 1 \/ ~IsSpace(trimmed[n - 1]))
        dashed   == [n \in 1..Len(trimmed) |->
                       IF NewRun(n) THEN "-" ELSE trimmed[n]]
        kept     == {n \in 1..Len(trimmed) : ~IsSpace(trimmed[n]) \/ NewRun(n)}
        Rank(n)  == Cardinality({m \in kept : m <= n})
    IN  [r \in 1..Cardinality(kept) |-> dashed[CHOOSE n \in kept : Rank(n) = r]]

\* C10: in every normalized landing payload each section's url starts with
\* "/": an input url that starts with "/" is kept unchanged, any other (or
\* absent) url is replaced by "/recipes/" followed by the slug of the title,
\* and is never passed through as it was.  The title is the section's
\* canonical (upper-cased, trimmed) one; where upper-casing changes no more
\* than the case, that is also the slug of the title as it came in.
C10_UrlIsRootedOrSlug ==
    (pc = "Done" /\ ValidLanding(parsed) /\ Is2xx(result.status)) =>
        \A n \in 1..Len(OutputSections) :
            LET inUrl  == Get(InputSections[n], Key_url)
                outUrl == Get(OutputSections[n], Key_url)
                title  == Get(OutputSections[n], Key_title).s
            IN  /\ outUrl.t = "string"
                /\ Len(outUrl.s) > 0 /\ outUrl.s[1] = "/"
                /\ IF inUrl.t = "string" /\ Len(inUrl.s) > 0 /\ inUrl.s[1] = "/"
                   THEN outUrl = inUrl
                   ELSE /\ outUrl.s = Text_recipesPath \o ClaimSlug(title)
                        /\ ~InSeq(SharpS, Get(InputSections[n], Key_title).s) =>
                               outUrl.s = Text_recipesPath
                                   \o ClaimSlug(Get(InputSections[n], Key_title).s)
                        /\ outUrl # inUrl

C10_Witness ==
    /\ pc = "Done"
    /\ Is2xx(result.status)
    /\ ValidLanding(parsed)
    /\ Len(InputSections) = 1
    /\ Get(InputSections[1], Key_title) = Str(<< "a", "!", "B" >>)
    /\ Get(InputSections[1], Key_url) = Str(<< "h", "t", "t", "p", ":", "/", "/", "x" >>)
    /\ Get(OutputSections[1], Key_url) = Str(Text_recipesPath \o << "a", "b" >>)

\* A recipe object the recipe branch accepts and normalizes without throwing:
\* title a text, ingredients a list of objects, steps a list, and the two
\* defaulted lists absent, null or lists.
ValidRecipe(v) ==
    /\ v.t = "object"
    /\ Get(v, Key_mode) = Str(Text_recipe)
    /\ Get(v, Key_title).t = "string"
    /\ Get(v, Key_ingredients).t = "array"
    /\ \A n \in 1..Len(Get(v, Key_ingredients).a) :
           Get(v, Key_ingredients).a[n].t = "object"
    /\ Get(v, Key_steps).t = "array"
    /\ Get(v, Key_used_ingredients).t \in {"undefined", "null", "array"}
    /\ Get(v, Key_suggested_additions).t \in {"undefined", "null", "array"}

InputGroups == Get(parsed, Key_ingredients).a

OutputGroups == Get(result.body, Key_ingredients).a

\* The items of a group, none when the group has no list of items.
ItemsOf(g) == IF Get(g, Key_items).t = "array" THEN Get(g, Key_items).a ELSE << >>

IsBlank(text) == \A n \in 1..Len(text) : IsSpace(text[n])

\* out holds texts only, none of them empty or blank, and each is the trimmed
\* form of an element of in, taken in the order of in.
TrimmedSubsequence(out, in) ==
    /\ \A j \in 1..Len(out) : out[j].t = "string" /\ ~IsBlank(out[j].s)
    /\ \E f \in [1..Len(out) -> 1..Len(in)] :
          /\ \A j \in 1..Len(out) : out[j].s = trim(String(in[f[j]]))
          /\ \A j, k \in 1..Len(out) : j < k => f[j] < f[k]

\* C11: after recipe normalization the items of every ingredient group, and
\* the steps, hold no empty or whitespace-only text, every element kept is
\* the trimmed form of an input element, and the kept elements are in their
\* input order.
C11_ItemsAndStepsTrimmedInOrder ==
    (pc = "Done" /\ ValidRecipe(parsed)) =>
        /\ result.status = 200
        /\ Len(OutputGroups) = Len(InputGroups)
        /\ \A n \in 1..Len(OutputGroups) :
               /\ Get(OutputGroups[n], Key_items).t = "array"
               /\ TrimmedSubsequence(Get(OutputGroups[n], Key_items).a,
                                      ItemsOf(InputGroups[n]))
        /\ Get(result.body, Key_steps).t = "array"
        /\ TrimmedSubsequence(Get(result.body, Key_steps).a, Get(parsed, Key_steps).a)

C11_Witness ==
    /\ pc = "Done"
    /\ ValidRecipe(parsed)
    /\ result.status = 200
    /\ ItemsOf(InputGroups[1])
         = << Str(<< " ", "b", " " >>), Str(<< " " >>), Str(<< "a" >>) >>
    /\ ItemsOf(OutputGroups[1]) = << Str(<< "b" >>), Str(<< "a" >>) >>
    /\ Len(Get(parsed, Key_steps).a) = 5
    /\ Get(result.body, Key_steps).a
         = << Str(<< "a" >>), Str(<< "a", " ", "b" >>), Str(<< "c" >>) >>

\* A list of texts each of which is trimmed and none of which is empty; an
\* absent list holds nothing.
TrimmedAndFiltered(list) ==
    \/ list.t = "undefined"
    \/ /\ list.t = "array"
       /\ \A n \in 1..Len(list.a) :
              /\ list.a[n].t = "string"
              /\ list.a[n].s = trim(list.a[n].s)
              /\ list.a[n].s # << >>

\* A scalar text that is trimmed, or absent.
TrimmedScalar(v) == v.t = "undefined" \/ (v.t = "string" /\ v.s = trim(v.s))

\* The lists of texts of a recipe payload other than its groups' items.
TextListKeys == {Key_steps, Key_notes, Key_used_ingredients, Key_suggested_additions}

\* C12: in every normalized recipe payload each list of texts (the items of
\* every ingredient group, steps, notes, used_ingredients and
\* suggested_additions) has every element trimmed and holds no empty text,
\* and the scalars title and intro are trimmed.
C12_EveryTextListTrimmedAndFiltered ==
    (pc = "Done" /\ ValidRecipe(parsed) /\ result.status = 200) =>
        /\ \A n \in 1..Len(OutputGroups) :
               TrimmedAndFiltered(Get(OutputGroups[n], Key_items))
        /\ \A k \in TextListKeys : TrimmedAndFiltered(Get(result.body, k))
        /\ TrimmedScalar(Get(result.body, Key_title))
        /\ TrimmedScalar(Get(result.body, Key_intro))

\* The normalization step applied to the payload the handler returned.
Renormalized == Validated(result.body)

\* C13: normalization is idempotent: for every landing or recipe payload the
\* normalization accepts, applying the normalization again to its output
\* yields an identical payload.
C13_NormalizationIdempotent ==
    (pc = "Done" /\ result.status = 200) =>
        /\ ~Renormalized.threw
        /\ Renormalized.v = Response(200, result.body)

====
